---- MODULE Spec2Model ----
(***************************************************************************)
(* Model of the Kia manual downloader: main.py (dual-mode pipeline) and    *)
(* downloader.py (headless-Chrome static scraper).                         *)
(*                                                                         *)
(* Strings are sequences of one-character strings, so that the path and    *)
(* filename conversions are computed rather than assumed.  The filesystem  *)
(* is a function whose DOMAIN is the set of regular files that exist.      *)
(***************************************************************************)
EXTENDS Integers, Sequences, FiniteSets, TLC

VARIABLES
    fs,          \* path -> [size, body]: bytes on disk, and size of the body being saved
    log,         \* every network request and download call of the process, in order
    req,         \* the most recent network request, with what was sent and how it ended
    served,      \* number of access tokens the token endpoint has returned so far
    got,         \* model index -> length of the token list obtained for it
    resolved,    \* the <<model, token>> positions whose exchange returned a URL
    last,        \* the most recent download call: function, path, existed, result
    ncalls,      \* number of download calls made so far
    downloaded,  \* path -> body size, for each call that returned True
    pc,          \* position of the dynamic-mode run (main.py)
    catalog,     \* car_models_list
    ti,          \* index of the current car_model in catalog
    tokens,      \* access_tokens_list of the current model
    ki,          \* index (1-based) of the current access token
    url,         \* pdf_download_url of the current token
    exitCode     \* process exit status; -1 while running

vars == <<fs, log, req, served, got, resolved, last, ncalls, downloaded, pc, catalog, ti, tokens, ki, url, exitCode>>

runVars == <<served, got, resolved, pc, catalog, ti, tokens, ki, url, exitCode>>

----------------------------------------------------------------------------
(* Bounds of the model.                                                    *)

MaxCalls == 3      \* download calls in one behaviour of SpecDl
MaxChunks == 2     \* chunks yielded by response.iter_content

----------------------------------------------------------------------------
(* Generic helpers.                                                        *)

RECURSIVE SumSeq(_)
SumSeq(s) == IF s = <<>> THEN 0 ELSE Head(s) + SumSeq(Tail(s))

SeqsUpTo(S, n) == UNION {[1..k -> S] : k \in 0..n}

\* the Python slice s[a-1:b]: positions a..b of s, clipped to s
Slice(s, a, b) ==
    LET lo == IF a < 1 THEN 1 ELSE a
        hi == IF b > Len(s) THEN Len(s) ELSE b
    IN  IF lo > hi THEN <<>> ELSE SubSeq(s, lo, hi)

EmptyFs == <<>>

Exists(f, p) == p \in DOMAIN f

\* open(path, "wb") / file_handle.write: the file exists with the given content
WriteFile(f, p, c) == [q \in (DOMAIN f) \cup {p} |-> IF q = p THEN c ELSE f[q]]

\* os.remove(path)
RemoveFile(f, p) == [q \in (DOMAIN f) \ {p} |-> f[q]]

----------------------------------------------------------------------------
(* Python string operations, on sequences of one-character strings.        *)

LowerLetters ==
    {"a","b","c","d","e","f","g","h","i","j","k","l","m",
     "n","o","p","q","r","s","t","u","v","w","x","y","z"}

Digits == {"0","1","2","3","4","5","6","7","8","9"}

\* str.lower(), one character
LowerChar(c) ==
    CASE c = "A" -> "a" [] c = "B" -> "b" [] c = "C" -> "c" [] c = "D" -> "d"
      [] c = "E" -> "e" [] c = "F" -> "f" [] c = "G" -> "g" [] c = "H" -> "h"
      [] c = "I" -> "i" [] c = "J" -> "j" [] c = "K" -> "k" [] c = "L" -> "l"
      [] c = "M" -> "m" [] c = "N" -> "n" [] c = "O" -> "o" [] c = "P" -> "p"
      [] c = "Q" -> "q" [] c = "R" -> "r" [] c = "S" -> "s" [] c = "T" -> "t"
      [] c = "U" -> "u" [] c = "V" -> "v" [] c = "W" -> "w" [] c = "X" -> "x"
      [] c = "Y" -> "y" [] c = "Z" -> "z" [] OTHER -> c

Lower(s) == [i \in 1..Len(s) |-> LowerChar(s[i])]

StartsWith(s, pre) == Len(s) >= Len(pre) /\ Slice(s, 1, Len(pre)) = pre

EndsWith(s, suf) == Len(s) >= Len(suf) /\ Slice(s, Len(s) - Len(suf) + 1, Len(s)) = suf

\* s.find(c) and s.rfind(c), 1-based, 0 when absent
Find(s, c) == IF \E i \in 1..Len(s) : s[i] = c
              THEN CHOOSE i \in 1..Len(s) : s[i] = c /\ \A j \in 1..(i - 1) : s[j] # c
              ELSE 0

RFind(s, c) == IF \E i \in 1..Len(s) : s[i] = c
               THEN CHOOSE i \in 1..Len(s) : s[i] = c /\ \A j \in (i + 1)..Len(s) : s[j] # c
               ELSE 0

\* s.split(c)[0]
SplitFirst(s, c) == IF Find(s, c) = 0 THEN s ELSE Slice(s, 1, Find(s, c) - 1)

\* s.split(c)[-1]; also os.path.basename(s) for c = "/"
SplitLast(s, c) == Slice(s, RFind(s, c) + 1, Len(s))

\* os.path.splitext(p)[1]: from the last dot of the last path component, unless
\* only dots precede it in that component
SplitExt(p) ==
    LET sepIndex == RFind(p, "/")
        dotIndex == RFind(p, ".")
    IN  IF dotIndex > sepIndex /\ \E i \in (sepIndex + 1)..(dotIndex - 1) : p[i] # "."
        THEN Slice(p, dotIndex, Len(p))
        ELSE <<>>

\* s.strip(c)
RECURSIVE LStrip(_, _)
LStrip(s, c) == IF s # <<>> /\ Head(s) = c THEN LStrip(Tail(s), c) ELSE s

RECURSIVE RStrip(_, _)
RStrip(s, c) == IF s # <<>> /\ s[Len(s)] = c THEN RStrip(Slice(s, 1, Len(s) - 1), c) ELSE s

Strip(s, c) == RStrip(LStrip(s, c), c)

\* s.replace(sub, ""): occurrences are found left to right, without overlap
RECURSIVE RemoveSubstring(_, _)
RemoveSubstring(s, sub) ==
    IF Len(s) < Len(sub) THEN s
    ELSE IF StartsWith(s, sub) THEN RemoveSubstring(Slice(s, Len(sub) + 1, Len(s)), sub)
    ELSE <<Head(s)>> \o RemoveSubstring(Tail(s), sub)

\* re.sub(r"[^a-z0-9\.]", "_", s)
ReplaceUnsafe(s) ==
    [i \in 1..Len(s) |-> IF s[i] \in LowerLetters \cup Digits \cup {"."} THEN s[i] ELSE "_"]

\* re.sub(r"_+", "_", s)
RECURSIVE CollapseUnderscores(_)
CollapseUnderscores(s) ==
    IF Len(s) < 2 THEN s
    ELSE IF s[1] = "_" /\ s[2] = "_" THEN CollapseUnderscores(Tail(s))
    ELSE <<Head(s)>> \o CollapseUnderscores(Tail(s))

\* os.path.join(a, b) on POSIX
PathJoin(a, b) ==
    IF b # <<>> /\ Head(b) = "/" THEN b
    ELSE IF a = <<>> \/ a[Len(a)] = "/" THEN a \o b
    ELSE a \o <<"/">> \o b

\* the printable ASCII characters, 0x20 to 0x7E, in order ("GRAVE" is 0x60)
Ascii ==
    <<" ","!","\"","#","$","%","&","'","(",")","*","+",",","-",".","/",
      "0","1","2","3","4","5","6","7","8","9",":",";","<","=",">","?",
      "@","A","B","C","D","E","F","G","H","I","J","K","L","M","N","O",
      "P","Q","R","S","T","U","V","W","X","Y","Z","[","\\","]","^","_",
      "GRAVE","a","b","c","d","e","f","g","h","i","j","k","l","m","n","o",
      "p","q","r","s","t","u","v","w","x","y","z","{","|","}","~">>

\* one token stands for every control character, one for every non-ASCII character
CONTROL_CHAR == "CTL"

NON_ASCII_CHAR == "U+"

HexDigits == Digits \cup {"a","b","c","d","e","f","A","B","C","D","E","F"}

HexVal(c) ==
    CASE c = "0" -> 0 [] c = "1" -> 1 [] c = "2" -> 2 [] c = "3" -> 3 [] c = "4" -> 4
      [] c = "5" -> 5 [] c = "6" -> 6 [] c = "7" -> 7 [] c = "8" -> 8 [] c = "9" -> 9
      [] c \in {"a", "A"} -> 10 [] c \in {"b", "B"} -> 11 [] c \in {"c", "C"} -> 12
      [] c \in {"d", "D"} -> 13 [] c \in {"e", "E"} -> 14 [] c \in {"f", "F"} -> 15

\* the character a decoded byte stands for (bytes above 0x7F decode, alone or in
\* a group, to non-ASCII characters or to U+FFFD under errors="replace")
ByteChar(b) ==
    IF b >= 128 THEN NON_ASCII_CHAR
    ELSE IF b < 32 \/ b = 127 THEN CONTROL_CHAR
    ELSE Ascii[b - 31]

\* urllib.parse.unquote(s): %XX with two hex digits is decoded, any other % is kept
RECURSIVE Unquote(_)
Unquote(s) ==
    IF s = <<>> THEN <<>>
    ELSE IF s[1] = "%" /\ Len(s) >= 3 /\ s[2] \in HexDigits /\ s[3] \in HexDigits
         THEN <<ByteChar(16 * HexVal(s[2]) + HexVal(s[3]))>> \o Unquote(Slice(s, 4, Len(s)))
    ELSE <<Head(s)>> \o Unquote(Tail(s))

DigitChars == <<"0","1","2","3","4","5","6","7","8","9">>

\* str(n) for n >= 0
RECURSIVE IntToStr(_)
IntToStr(n) == IF n < 10 THEN <<DigitChars[n + 1]>>
               ELSE IntToStr(n \div 10) \o <<DigitChars[(n % 10) + 1]>>

\* f"{n:02d}" for n >= 0
Pad2(n) == IF n < 10 THEN <<"0">> \o IntToStr(n) ELSE IntToStr(n)

\* re.sub(r"[^a-z0-9]+", "_", s): each maximal run of other characters becomes one "_"
RECURSIVE ReplaceRuns(_)
ReplaceRuns(s) ==
    IF s = <<>> THEN <<>>
    ELSE IF s[1] \in LowerLetters \cup Digits THEN <<s[1]>> \o ReplaceRuns(Tail(s))
    ELSE IF Len(s) >= 2 /\ s[2] \notin LowerLetters \cup Digits THEN ReplaceRuns(Tail(s))
    ELSE <<"_">> \o ReplaceRuns(Tail(s))

PDF_EXT == <<".","p","d","f">>

----------------------------------------------------------------------------
(* sanitize_primary_mode_filename (main.py).                               *)

\* the trailing .pdf left in place before the substitution
sanitize_KeepExtension(url_path) ==
    Strip(ReplaceRuns(Lower(Unquote(SplitLast(url_path, "/")))), "_") \o PDF_EXT

\* the leading and trailing underscores left in place
sanitize_KeepOuterUnderscores(url_path) ==
    LET decoded == Lower(Unquote(SplitLast(url_path, "/")))
        filename == IF EndsWith(decoded, PDF_EXT)
                    THEN Slice(decoded, 1, Len(decoded) - 4)
                    ELSE decoded
    IN  ReplaceRuns(filename) \o PDF_EXT

sanitize_primary_mode_filename(url_path) ==
    LET decoded == Lower(Unquote(SplitLast(url_path, "/")))
        filename == IF EndsWith(decoded, PDF_EXT)
                    THEN Slice(decoded, 1, Len(decoded) - 4)
                    ELSE decoded
    IN  Strip(ReplaceRuns(filename), "_") \o PDF_EXT

----------------------------------------------------------------------------
(* url_to_filename (downloader.py).                                        *)

invalid_substrings == << <<"_","p","d","f">>, <<"_","z","i","p">>, <<"_","t","x","t">> >>

url_to_filename(raw_url) ==
    LET lower == SplitLast(SplitFirst(Lower(raw_url), "?"), "/")
        ext == SplitExt(lower)
        stripped == Strip(CollapseUnderscores(ReplaceUnsafe(lower)), "_")
        safe == RemoveSubstring(RemoveSubstring(RemoveSubstring(stripped,
                    invalid_substrings[1]), invalid_substrings[2]), invalid_substrings[3])
    IN  IF SplitExt(safe) = <<>> THEN safe \o ext ELSE safe

----------------------------------------------------------------------------
(* create_kgis_safe_filename (main.py).                                    *)

unwanted_suffixes == << <<"_","p","d","f">>, <<"_","z","i","p">>, <<"_","t","x","t">> >>

create_kgis_safe_filename(raw_url) ==
    LET filename_part == SplitLast(SplitFirst(Lower(raw_url), "?"), "/")
        original_extension == SplitExt(filename_part)
        stripped == Strip(CollapseUnderscores(ReplaceUnsafe(filename_part)), "_")
        safe_name == RemoveSubstring(RemoveSubstring(RemoveSubstring(stripped,
                        unwanted_suffixes[1]), unwanted_suffixes[2]), unwanted_suffixes[3])
    IN  IF SplitExt(safe_name) = <<>> THEN safe_name \o original_extension ELSE safe_name

----------------------------------------------------------------------------
(* HTTP responses to the document GET.                                     *)

ChunkSizes == {0, 1}     \* 0: an empty (keep-alive) chunk

STATUS_OK == 200

Statuses == {200, 206, 404}

APPLICATION_PDF == <<"a","p","p","l","i","c","a","t","i","o","n","/","p","d","f">>

APPLICATION_PDF_MIXED == <<"A","p","p","l","i","c","a","t","i","o","n","/","P","D","F">>

BINARY_OCTET_STREAM == <<"b","i","n","a","r","y","/","o","c","t","e","t","-","s","t","r","e","a","m">>

APPLICATION_OCTET_STREAM ==
    <<"a","p","p","l","i","c","a","t","i","o","n","/","o","c","t","e","t","-","s","t","r","e","a","m">>

TEXT_HTML == <<"t","e","x","t","/","h","t","m","l">>

\* Content-Type header values; <<>> is an absent header (headers.get default)
ContentTypes ==
    {APPLICATION_PDF_MIXED, BINARY_OCTET_STREAM, APPLICATION_OCTET_STREAM, <<>>}

NoFault == [kind |-> "none", at |-> 0]

\* Where the streamed write is interrupted: "open" (open() raises OSError),
\* "stream" (iter_content raises a RequestException once `at` chunks were
\* delivered), "write" (the write of the non-empty chunk at+1 raises OSError).
Faults(chunks) ==
    {NoFault, [kind |-> "open", at |-> 0], [kind |-> "stream", at |-> 0]}
    \cup {[kind |-> "stream", at |-> i] : i \in 0..(Len(chunks) - 1)}
    \cup {[kind |-> "write", at |-> i] : i \in {j \in 0..(Len(chunks) - 1) : chunks[j + 1] > 0}}

\* what the document GET can meet: no connection, an error status, or a 200
\* with a content type, a body and possibly a fault while it is saved
ResponsesOf(ctypes, maxChunks) ==
    {[conn |-> "error", status |-> 0, ctype |-> <<>>, chunks |-> <<>>, fault |-> NoFault]}
    \cup {[conn |-> "ok", status |-> s, ctype |-> TEXT_HTML, chunks |-> <<>>, fault |-> NoFault] :
            s \in Statuses \ {STATUS_OK}}
    \cup UNION {{[conn |-> "ok", status |-> STATUS_OK, ctype |-> ct, chunks |-> ch, fault |-> f] :
                    ct \in ctypes, f \in Faults(ch)} : ch \in SeqsUpTo(ChunkSizes, maxChunks)}

Responses == ResponsesOf(ContentTypes, MaxChunks)

\* bytes that reach the file before the loop ends or is interrupted
BytesWritten(resp) ==
    IF resp.fault.kind \in {"stream", "write"}
    THEN SumSeq(Slice(resp.chunks, 1, resp.fault.at))
    ELSE SumSeq(resp.chunks)

BodySize(resp) == SumSeq(resp.chunks)

FileOf(resp) == [size |-> BytesWritten(resp), body |-> BodySize(resp)]

\* response.raise_for_status(): raises HTTPError for 4xx and 5xx
RaisesForStatus(resp) == resp.status >= 400

\* "sub in s" for strings
Contains(s, sub) == \E i \in 0..(Len(s) - Len(sub)) : Slice(s, i + 1, i + Len(sub)) = sub

\* the Content-Type test of download_pdf, on one header value
ContentTypeAccepted(header) ==
    LET content_type == Lower(header)
    IN  Contains(content_type, BINARY_OCTET_STREAM) \/ Contains(content_type, APPLICATION_PDF)

\* every header value a response of the model carries
AllContentTypes == ContentTypes \cup {APPLICATION_PDF, TEXT_HTML}

\* the header values that pass the test (evaluated once)
AcceptedContentTypes == {ct \in AllContentTypes : ContentTypeAccepted(ct)}

----------------------------------------------------------------------------
(* The two download routines.  Each returns the new filesystem, the        *)
(* outcome, whether the GET was issued and whether the file was opened for *)
(* writing.  The Python result False covers both "skipped" and "failed";   *)
(* the outcome keeps them apart.                                           *)

Outcome(f, res, sent, opn) == [fs |-> f, result |-> res, requested |-> sent, opened |-> opn]

\* the zero-byte branch without os.remove: the empty file stays
FetchAndSave_KeepEmptyFile(f, resp, p) ==
    IF resp.conn = "error" THEN Outcome(f, "failed", TRUE, FALSE)
    ELSE IF RaisesForStatus(resp) THEN Outcome(f, "failed", TRUE, FALSE)
    ELSE IF resp.fault.kind = "open" THEN Outcome(f, "failed", TRUE, FALSE)
    ELSE IF resp.fault.kind \in {"stream", "write"}
         THEN Outcome(WriteFile(f, p, FileOf(resp)), "failed", TRUE, TRUE)
    ELSE IF BytesWritten(resp) = 0
         THEN Outcome(WriteFile(f, p, FileOf(resp)), "failed", TRUE, TRUE)
    ELSE Outcome(WriteFile(f, p, FileOf(resp)), "downloaded", TRUE, TRUE)

\* download_file_to_disk (main.py), from the GET on: the try block and its handlers
FetchAndSave(f, resp, p) ==
    IF resp.conn = "error" THEN Outcome(f, "failed", TRUE, FALSE)
    ELSE IF RaisesForStatus(resp) THEN Outcome(f, "failed", TRUE, FALSE)
    ELSE IF resp.fault.kind = "open" THEN Outcome(f, "failed", TRUE, FALSE)
    ELSE IF resp.fault.kind \in {"stream", "write"}
         \* both except clauses return False; neither removes the file
         THEN Outcome(WriteFile(f, p, FileOf(resp)), "failed", TRUE, TRUE)
    ELSE IF BytesWritten(resp) = 0
         THEN Outcome(RemoveFile(WriteFile(f, p, FileOf(resp)), p), "failed", TRUE, TRUE)
    ELSE Outcome(WriteFile(f, p, FileOf(resp)), "downloaded", TRUE, TRUE)

\* the existence check left out: every call fetches and rewrites the file
download_file_to_disk_NoExistsCheck(f, resp, p) == FetchAndSave(f, resp, p)

\* download_file_to_disk (main.py)
download_file_to_disk(f, resp, p) ==
    IF Exists(f, p) THEN Outcome(f, "skipped", FALSE, FALSE)
    ELSE FetchAndSave(f, resp, p)

output_directory == <<"P","D","F","s","/">>

full_file_path(pdf_url) == PathJoin(output_directory, url_to_filename(pdf_url))

\* the zero-byte branch removes the file but falls through to the success return
FetchAndSavePdf_ZeroIsSuccess(f, resp, p) ==
    IF resp.conn = "error" \/ resp.status # STATUS_OK \/ resp.ctype \notin AcceptedContentTypes
       \/ resp.fault.kind = "open"
    THEN Outcome(f, "failed", TRUE, FALSE)
    ELSE IF resp.fault.kind \in {"stream", "write"}
         THEN Outcome(RemoveFile(WriteFile(f, p, FileOf(resp)), p), "failed", TRUE, TRUE)
    ELSE IF BytesWritten(resp) = 0
         THEN Outcome(RemoveFile(WriteFile(f, p, FileOf(resp)), p), "downloaded", TRUE, TRUE)
    ELSE Outcome(WriteFile(f, p, FileOf(resp)), "downloaded", TRUE, TRUE)

\* the except branch without the clean-up: the partial file stays
FetchAndSavePdf_KeepPartial(f, resp, p) ==
    IF resp.conn = "error" \/ resp.status # STATUS_OK \/ resp.ctype \notin AcceptedContentTypes
       \/ resp.fault.kind = "open"
    THEN Outcome(f, "failed", TRUE, FALSE)
    ELSE IF resp.fault.kind \in {"stream", "write"}
         THEN Outcome(WriteFile(f, p, FileOf(resp)), "failed", TRUE, TRUE)
    ELSE IF BytesWritten(resp) = 0
         THEN Outcome(RemoveFile(WriteFile(f, p, FileOf(resp)), p), "failed", TRUE, TRUE)
    ELSE Outcome(WriteFile(f, p, FileOf(resp)), "downloaded", TRUE, TRUE)

\* download_pdf (downloader.py), from the GET on; p is full_file_path(pdf_url)
FetchAndSavePdf(f, resp, p) ==
        IF resp.conn = "error" THEN Outcome(f, "failed", TRUE, FALSE)
        ELSE IF resp.status # STATUS_OK THEN Outcome(f, "failed", TRUE, FALSE)
        ELSE IF resp.ctype \notin AcceptedContentTypes THEN Outcome(f, "failed", TRUE, FALSE)
        ELSE IF resp.fault.kind = "open" THEN Outcome(f, "failed", TRUE, FALSE)
        ELSE IF resp.fault.kind \in {"stream", "write"}
             \* except Exception: the partial file is removed if it exists
             THEN Outcome(RemoveFile(WriteFile(f, p, FileOf(resp)), p), "failed", TRUE, TRUE)
        ELSE IF BytesWritten(resp) = 0
             THEN Outcome(RemoveFile(WriteFile(f, p, FileOf(resp)), p), "failed", TRUE, TRUE)
        ELSE Outcome(WriteFile(f, p, FileOf(resp)), "downloaded", TRUE, TRUE)

\* the existence test left out: the GET is sent and the file opened for writing
download_pdf_Overwrite(f, resp, p) == FetchAndSavePdf(f, resp, p)

\* download_pdf (downloader.py); p is full_file_path(pdf_url)
download_pdf(f, resp, p) ==
    IF Exists(f, p) THEN Outcome(f, "skipped", FALSE, FALSE)
    ELSE FetchAndSavePdf(f, resp, p)

----------------------------------------------------------------------------
(* Events of the log.                                                      *)

\* t, k: the car model and token being processed (0 outside the dynamic run)
Event(kind, t, k) == [kind |-> kind, t |-> t, k |-> k]

\* a network request in full; arg: the destination path or the token sent;
\* resp: the response to an API call; ok: the call met no error
Request(kind, t, k, arg, resp, ok) ==
    [kind |-> kind, t |-> t, k |-> k, arg |-> arg, resp |-> resp, ok |-> ok]

\* stands for the response where it is not kept
NoResp == [conn |-> "none"]

NoRequest == Request("none", 0, 0, <<>>, NoResp, FALSE)

NetworkKinds == {"catalog_post", "token_post", "refresh_get", "exchange_post", "document_get"}

\* the log entries a download call adds: the call itself, then its GET if issued
DownloadEvents(out, t, k, p) ==
    <<Event("download_call", t, k)>>
    \o (IF out.requested THEN <<Event("document_get", t, k)>> ELSE <<>>)

\* the most recent request after a download call
DownloadRequest(out, t, k, p, r) ==
    IF out.requested THEN Request("document_get", t, k, p, NoResp, out.result = "downloaded") ELSE r

Record(fn, p, f, out) ==
    [fn |-> fn, path |-> p, existed |-> Exists(f, p), result |-> out.result,
     requested |-> out.requested, opened |-> out.opened]

NoCall == [fn |-> "none", path |-> <<>>, existed |-> FALSE, result |-> "none",
           requested |-> FALSE, opened |-> FALSE]

RecordSuccess(d, p, out, resp) ==
    IF out.result = "downloaded" THEN WriteFile(d, p, BodySize(resp)) ELSE d

----------------------------------------------------------------------------
(* SpecDl: any sequence of download calls, starting from an empty archive. *)

static_output_directory ==
    <<"P","D","F","s","/","K","G","I","S","_","S","t","a","t","i","c">>

\* destination paths handed to download_file_to_disk
DlPaths ==
    {PathJoin(static_output_directory, <<"a",".","p","d","f">>),
     PathJoin(output_directory, <<"g","u","i","d","e",".","p","d","f">>)}

\* URLs handed to download_pdf; both derive the destination path PDFs/guide.pdf
DlUrls ==
    {<<"h",":","/","/","k","/","G","u","i","d","e",".","P","D","F">>,
     <<"h",":","/","/","k","/","g","u","i","d","e","_","p","d","f",".","p","d","f","?","v","=","2">>}

\* the destination path download_pdf derives for each URL (evaluated once)
DlDest == [u \in DlUrls |-> full_file_path(u)]

Idle == pc = "idle" /\ UNCHANGED runVars

InitDl ==
    /\ fs = EmptyFs
    /\ log = <<>>
    /\ req = NoRequest
    /\ served = 0
    /\ got = <<>>
    /\ resolved = {}
    /\ last = NoCall
    /\ ncalls = 0
    /\ downloaded = EmptyFs
    /\ pc = "idle"
    /\ catalog = <<>>
    /\ ti = 0
    /\ tokens = <<>>
    /\ ki = 0
    /\ url = <<>>
    /\ exitCode = -1

CallDownloadFileToDisk ==
    /\ ncalls < MaxCalls
    /\ \E p \in DlPaths, resp \in Responses :
        LET out == download_file_to_disk(fs, resp, p)
        IN  /\ fs' = out.fs
            /\ log' = log \o DownloadEvents(out, 0, 0, p)
            /\ req' = DownloadRequest(out, 0, 0, p, req)
            /\ last' = Record("download_file_to_disk", p, fs, out)
            /\ downloaded' = RecordSuccess(downloaded, p, out, resp)
    /\ ncalls' = ncalls + 1
    /\ Idle

CallDownloadPdf ==
    /\ ncalls < MaxCalls
    /\ \E u \in DlUrls, resp \in Responses :
        LET p == DlDest[u]
            out == download_pdf(fs, resp, p)
        IN  /\ fs' = out.fs
            /\ log' = log \o DownloadEvents(out, 0, 0, p)
            /\ req' = DownloadRequest(out, 0, 0, p, req)
            /\ last' = Record("download_pdf", p, fs, out)
            /\ downloaded' = RecordSuccess(downloaded, p, out, resp)
    /\ ncalls' = ncalls + 1
    /\ Idle

NextDl == CallDownloadFileToDisk \/ CallDownloadPdf

SpecDl == InitDl /\ [][NextDl]_vars

----------------------------------------------------------------------------
(* Properties of the download routines, under SpecDl.                      *)

\* a download call has just returned
Called == ncalls' = ncalls + 1

\* the log entries the call added
Added == {log'[i] : i \in (Len(log) + 1)..Len(log')}

\* C1: a call of download_file_to_disk that started with no file at the
\* destination path and ended in failure returns with no file at that path.
C1_FailedLeavesNoFile ==
    (last.fn = "download_file_to_disk" /\ ~last.existed /\ last.result = "failed")
        => ~Exists(fs, last.path)

\* C2: starting from an empty archive, every file present holds the complete,
\* non-empty body of a response whose download call returned success.
C2_FilesCompleteOrAbsent ==
    \A p \in DOMAIN fs :
        /\ fs[p].size > 0
        /\ fs[p].size = fs[p].body
        /\ Exists(downloaded, p)
        /\ downloaded[p] = fs[p].size

\* C3: a download call whose destination path holds a file returns the skip
\* result and issues no network request.
C3_ExistingFileSkipsWithoutRequest ==
    [][(Called /\ Exists(fs, last'.path))
            => /\ last'.result = "skipped"
               /\ \A e \in Added : e.kind \notin NetworkKinds
               /\ Slice(log', 1, Len(log)) = log]_vars

C3_Witness ==
    /\ last.fn = "download_file_to_disk"
    /\ last.existed
    /\ last.result = "skipped"
    /\ req.kind = "document_get"
    /\ req.arg = last.path

\* C4: once a call for a destination path has returned a successful download,
\* every later call for that path is a skip, whatever the response would be.
C4_SkipAfterDownloaded ==
    [][(Called /\ Exists(downloaded, last'.path)) => last'.result = "skipped"]_vars

C4_Witness ==
    /\ ncalls >= 3
    /\ Exists(downloaded, last.path)
    /\ last.result = "skipped"

----------------------------------------------------------------------------
(* JSON values and the Python operations the API calls apply to them.      *)

JNull == [t |-> "null", v |-> <<>>]

JNum(n) == [t |-> "num", v |-> n]

JStr(str) == [t |-> "str", v |-> str]

JList(seq) == [t |-> "list", v |-> seq]

\* rec: a record of JSON values; <<>> for the empty object
JObj(rec) == [t |-> "obj", v |-> rec]

\* a response body that response.json() cannot decode
NotJson == [t |-> "invalid", v |-> <<>>]

\* bool(x)
Truthy(x) ==
    CASE x.t = "null" -> FALSE
      [] x.t = "num" -> x.v # 0
      [] x.t \in {"str", "list"} -> x.v # <<>>
      [] x.t = "obj" -> DOMAIN x.v # {}

\* x has a .get method; on any other type the call raises AttributeError
HasGet(x) == x.t = "obj"

\* x.get(key, default), for x with a .get method
DictGet(x, key, default) == IF key \in DOMAIN x.v THEN x.v[key] ELSE default

\* len(x) and iteration over x are defined; on None or a number they raise TypeError
HasLen(x) == x.t \in {"str", "list", "obj"}

\* the items a for loop over x visits (strings yield their characters)
Items(x) == IF x.t = "list" THEN x.v ELSE [i \in 1..Len(x.v) |-> JStr(<<x.v[i]>>)]

Returned(v) == [raised |-> FALSE, value |-> v]

\* an exception no handler of the function catches
Raised == [raised |-> TRUE, value |-> JNull]

----------------------------------------------------------------------------
(* The API calls of the dynamic mode (main.py).                            *)

\* fetch_all_model_years, on the response to the catalog POST
fetch_all_model_years(resp) ==
    IF resp.conn = "error" \/ resp.status >= 400 THEN Returned(JList(<<>>))
    ELSE IF resp.body = NotJson THEN Returned(JList(<<>>))
    ELSE IF ~HasGet(resp.body) THEN Raised
    ELSE LET payload == DictGet(resp.body, "payload", JObj(<<>>))
         IN  IF ~HasGet(payload) THEN Raised
             ELSE LET vehicle_models == DictGet(payload, "vehicleModelHU", JList(<<>>))
                  IN  IF ~HasLen(vehicle_models) THEN Raised
                      ELSE Returned(vehicle_models)

HasToken(record) == Truthy(DictGet(record, "accessPayload", JNull))

\* fetch_manual_access_tokens, on the response to the token POST.  The only
\* handler is for RequestException, which covers the JSONDecodeError that
\* response.json() raises (requests 2.27 and later).
fetch_manual_access_tokens(resp) ==
    IF resp.conn = "error" \/ resp.status >= 400 THEN Returned(<<>>)
    ELSE IF resp.body = NotJson THEN Returned(<<>>)
    ELSE IF ~HasGet(resp.body) THEN Raised
    ELSE LET payload == DictGet(resp.body, "payload", JObj(<<>>))
         IN  IF ~HasGet(payload) THEN Raised
             ELSE LET manual_records == DictGet(payload, "automatedManuals", JList(<<>>))
                  IN  IF ~HasLen(manual_records) THEN Raised
                      ELSE IF \E i \in 1..Len(Items(manual_records)) :
                                    ~HasGet(Items(manual_records)[i])
                           THEN Raised
                      ELSE LET kept == SelectSeq(Items(manual_records), HasToken)
                           IN  Returned([i \in 1..Len(kept) |->
                                            DictGet(kept[i], "accessPayload", JNull)])

\* establish_technical_session_cookies: TRUE when the refresh GET succeeded.
\* A failure is logged and swallowed; nothing is returned either way.
establish_technical_session_cookies(resp) == resp.conn = "ok" /\ resp.status < 400

TECH_INFO_BASE_DOMAIN ==
    <<"h","t","t","p","s",":","/","/","w","w","w",".","k","i","a","t","e","c","h","i","n","f","o",
      ".","c","o","m">>

IFRAME_OPEN == <<"<","i","f","r","a","m","e"," ","s","r","c","=","\"">>

\* the text matched by group 1 of <iframe src="([^"]+\.pdf)" at position i of
\* the page, or <<>>: the characters up to the next quote, if they end in .pdf
\* after at least one other character
IframeSrcAt(page, i) ==
    LET start == i + Len(IFRAME_OPEN)
        rest == Slice(page, start, Len(page))
        q == Find(rest, "\"")
        src == Slice(rest, 1, q - 1)
    IN  IF Slice(page, i, start - 1) = IFRAME_OPEN /\ q > 0
           /\ Len(src) > Len(PDF_EXT) /\ EndsWith(src, PDF_EXT)
        THEN src ELSE <<>>

\* the last match taken in place of the first
IframeSearch_Last(page) ==
    IF \E i \in 1..Len(page) : IframeSrcAt(page, i) # <<>>
    THEN IframeSrcAt(page, CHOOSE i \in 1..Len(page) :
                                /\ IframeSrcAt(page, i) # <<>>
                                /\ \A j \in (i + 1)..Len(page) : IframeSrcAt(page, j) = <<>>)
    ELSE <<>>

\* re.search(r'<iframe src="([^"]+\.pdf)"', page).group(1), or <<>> for no match
IframeSearch(page) ==
    IF \E i \in 1..Len(page) : IframeSrcAt(page, i) # <<>>
    THEN IframeSrcAt(page, CHOOSE i \in 1..Len(page) :
                                /\ IframeSrcAt(page, i) # <<>>
                                /\ \A j \in 1..(i - 1) : IframeSrcAt(page, j) = <<>>)
    ELSE <<>>

\* resolve_pdf_url_from_token, on the response to the token-exchange POST;
\* <<>> is the empty string it returns on failure
resolve_pdf_url_from_token(resp) ==
    IF resp.conn = "error" \/ resp.status >= 400 THEN <<>>
    ELSE IF IframeSearch(resp.text) # <<>> THEN TECH_INFO_BASE_DOMAIN \o IframeSearch(resp.text)
    ELSE <<>>

UpperLetters ==
    {"A","B","C","D","E","F","G","H","I","J","K","L","M",
     "N","O","P","Q","R","S","T","U","V","W","X","Y","Z"}

Whitespace == {" ", "\t", "\n"}

RECURSIVE StripWhitespace(_)
StripWhitespace(s) ==
    IF s # <<>> /\ Head(s) \in Whitespace THEN StripWhitespace(Tail(s))
    ELSE IF s # <<>> /\ s[Len(s)] \in Whitespace THEN StripWhitespace(Slice(s, 1, Len(s) - 1))
    ELSE s

IsModelNameChar(c) == c \in LowerLetters \cup UpperLetters \cup Digits \cup Whitespace \cup {"-"}

\* re.sub(r"[^a-zA-Z0-9\s-]", "", model_name).strip().replace(" ", "_")
safe_model_name(model_name) ==
    LET kept == StripWhitespace(SelectSeq(model_name, IsModelNameChar))
    IN  [i \in 1..Len(kept) |-> IF kept[i] = " " THEN "_" ELSE kept[i]]

ROOT_DOWNLOAD_DIRECTORY == <<"P","D","F","s">>

\* str(model_year)
YearStr(model_year) == IF model_year.t = "num" THEN IntToStr(model_year.v) ELSE model_year.v

\* the destination path of the token at 0-based position index of car_model
DynamicPath(car_model, index, pdf_download_url) ==
    LET output_directory_path ==
            PathJoin(PathJoin(ROOT_DOWNLOAD_DIRECTORY,
                              YearStr(DictGet(car_model, "modelYear", JNull))),
                     safe_model_name(DictGet(car_model, "modelName", JNull).v))
        final_filename_with_index ==
            Pad2(index + 1) \o <<"_">> \o sanitize_primary_mode_filename(pdf_download_url)
    IN  PathJoin(output_directory_path, final_filename_with_index)

----------------------------------------------------------------------------
(* SpecRun: one run of main.py in dynamic mode, one action per blocking    *)
(* call of execute_model_specific_download.                                *)

MaxModels == 2     \* records in the catalog response
MaxTokens == 2     \* access tokens returned in one run, over all models

MODEL_A == JObj([modelYear |-> JNum(2024), modelName |-> JStr(<<"K","5">>)])

MODEL_B == JObj([modelYear |-> JNum(2025), modelName |-> JStr(<<"E","V"," ","6","!">>)])

\* a record without a model year
MODEL_NO_YEAR == JObj([modelName |-> JStr(<<"K","5">>)])

CarModels == {MODEL_A, MODEL_B, MODEL_NO_YEAR, JNull}

TOKEN_1 == JObj([accessPayload |-> JStr(<<"t","1">>)])

TOKEN_2 == JObj([accessPayload |-> JStr(<<"t","2">>)])

\* a record whose accessPayload is empty
TOKEN_EMPTY == JObj([accessPayload |-> JStr(<<>>)])

ManualRecords == {TOKEN_1, TOKEN_2, TOKEN_EMPTY, JNull}

\* JSON bodies around a list field: undecodable, not an object, payload absent,
\* null or empty, the field null, and the field holding each list of items
BodiesOf(field, items, n) ==
    {NotJson, JList(<<>>), JObj(<<>>), JObj([payload |-> JNull]), JObj([payload |-> JObj(<<>>)]),
     JObj([payload |-> JObj([f \in {field} |-> JNull])])}
    \cup {JObj([payload |-> JObj([f \in {field} |-> JList(l)])]) : l \in SeqsUpTo(items, n)}

ApiResponses(bodies) ==
    {[conn |-> "error", status |-> 0, body |-> NotJson],
     [conn |-> "ok", status |-> 500, body |-> NotJson]}
    \cup {[conn |-> "ok", status |-> STATUS_OK, body |-> b] : b \in bodies}

CatalogResponses == ApiResponses(BodiesOf("vehicleModelHU", CarModels, MaxModels))

TokenResponses == ApiResponses(BodiesOf("automatedManuals", ManualRecords, MaxTokens))

RefreshResponses ==
    {[conn |-> "error", status |-> 0], [conn |-> "ok", status |-> 503],
     [conn |-> "ok", status |-> STATUS_OK]}

PAGE_EMPTY == <<"<","p",">">>

\* an iframe that is no PDF, then the PDF iframe
PAGE_A ==
    IFRAME_OPEN \o <<"/","x","\"",">">>
    \o IFRAME_OPEN \o <<"/","f","/","a",".","p","d","f","\"",">">>

\* the src is upper case: no match
PAGE_UPPER == IFRAME_OPEN \o <<"/","f","/","a",".","P","D","F","\"",">">>

Pages == {PAGE_EMPTY, PAGE_A, PAGE_UPPER}

ExchangeResponses ==
    {[conn |-> "error", status |-> 0, text |-> <<>>],
     [conn |-> "ok", status |-> 403, text |-> <<>>]}
    \cup {[conn |-> "ok", status |-> STATUS_OK, text |-> pg] : pg \in Pages}

\* another PDF iframe
PAGE_B == IFRAME_OPEN \o <<"/","f","/","b",".","p","d","f","\"",">">>

\* the exchange responses of a run on the archive of an earlier run
RerunExchangeResponses ==
    {[conn |-> "error", status |-> 0, text |-> <<>>]}
    \cup {[conn |-> "ok", status |-> STATUS_OK, text |-> pg] : pg \in {PAGE_A, PAGE_B}}

\* the URL each exchange response resolves to (evaluated once)
Resolved ==
    [resp \in ExchangeResponses \cup RerunExchangeResponses |-> resolve_pdf_url_from_token(resp)]

\* the document responses of a run: every status, an empty or one-chunk body,
\* and each fault on the one-chunk body
RunResponses ==
    {r \in ResponsesOf({APPLICATION_PDF}, 1) : r.chunks = <<1>> \/ r.fault = NoFault}

\* what the two API calls return on each response (evaluated once)
CatalogResult == [resp \in CatalogResponses |-> fetch_all_model_years(resp)]

TokenResult == [resp \in TokenResponses |-> fetch_manual_access_tokens(resp)]

\* the destination path of each model, token position and resolved URL (evaluated once)
PathOf ==
    [car_model \in {m \in CarModels : HasGet(m)}, index \in 0..(MaxTokens - 1),
     pdf_download_url \in {Resolved[resp] : resp \in DOMAIN Resolved} \ {<<>>}
        |-> DynamicPath(car_model, index, pdf_download_url)]

dlVars == <<fs, last, ncalls, downloaded>>

InitRun ==
    /\ fs = EmptyFs
    /\ log = <<>>
    /\ req = NoRequest
    /\ served = 0
    /\ got = <<>>
    /\ resolved = {}
    /\ last = NoCall
    /\ ncalls = 0
    /\ downloaded = EmptyFs
    /\ pc = "start"
    /\ catalog = <<>>
    /\ ti = 0
    /\ tokens = <<>>
    /\ ki = 0
    /\ url = <<>>
    /\ exitCode = -1

\* main() returns (0), or ends in sys.exit(1) or an uncaught exception (1)
ExitOf(p) == CASE p = "done" -> 0 [] p \in {"aborted", "crashed"} -> 1 [] OTHER -> -1

\* only the model year tested: a record without a usable name is processed
RECURSIVE NextModel_YearOnly(_, _)
NextModel_YearOnly(cat, i) ==
    IF i > Len(cat) THEN [pc |-> "done", ti |-> 0]
    ELSE IF ~HasGet(cat[i]) THEN [pc |-> "crashed", ti |-> i]
    ELSE IF ~Truthy(DictGet(cat[i], "modelYear", JNull))
         THEN NextModel_YearOnly(cat, i + 1)
    ELSE [pc |-> "tokens", ti |-> i]

\* the for loop over car_models_list from record i on: where it stops next
RECURSIVE NextModel(_, _)
NextModel(cat, i) ==
    IF i > Len(cat) THEN [pc |-> "done", ti |-> 0]
    ELSE IF ~HasGet(cat[i]) THEN [pc |-> "crashed", ti |-> i]
    ELSE IF \/ ~Truthy(DictGet(cat[i], "modelYear", JNull))
            \/ ~Truthy(DictGet(cat[i], "modelName", JNull))
         THEN NextModel(cat, i + 1)
    ELSE [pc |-> "tokens", ti |-> i]

GotoModel(cat, i) ==
    /\ pc' = NextModel(cat, i).pc
    /\ ti' = NextModel(cat, i).ti
    /\ exitCode' = ExitOf(NextModel(cat, i).pc)
    /\ tokens' = <<>>
    /\ ki' = 0
    /\ url' = <<>>

Stop(p) ==
    /\ pc' = p
    /\ exitCode' = ExitOf(p)
    /\ UNCHANGED <<ti, tokens, ki, url>>

\* the refresh hoisted out of the token loop: later tokens go straight to the exchange
AfterToken_NoRefresh ==
    IF ki < Len(tokens)
    THEN /\ pc' = "resolve"
         /\ ki' = ki + 1
         /\ url' = <<>>
         /\ UNCHANGED <<ti, tokens, exitCode>>
    ELSE GotoModel(catalog, ti + 1)

\* a break in place of the end of the loop body: the model's other tokens are dropped
AfterToken_Break == GotoModel(catalog, ti + 1)

\* the end of the loop body for the current token
AfterToken ==
    IF ki < Len(tokens)
    THEN /\ pc' = "refresh"
         /\ ki' = ki + 1
         /\ url' = <<>>
         /\ UNCHANGED <<ti, tokens, exitCode>>
    ELSE GotoModel(catalog, ti + 1)

\* the abort test left out: an empty list falls through the loop
FetchCatalog_NoAbort ==
    /\ pc = "start"
    /\ \E resp \in CatalogResponses :
        LET r == CatalogResult[resp]
        IN  /\ log' = Append(log, Event("catalog_post", 0, 0))
            /\ req' = Request("catalog_post", 0, 0, <<>>, resp, ~r.raised /\ Truthy(r.value))
            /\ IF r.raised THEN Stop("crashed") /\ catalog' = catalog
               ELSE catalog' = Items(r.value) /\ GotoModel(Items(r.value), 1)
    /\ UNCHANGED <<served, got, resolved, dlVars>>

\* fetch_all_model_years, the abort test and the entry into the loop
FetchCatalog ==
    /\ pc = "start"
    /\ \E resp \in CatalogResponses :
        LET r == CatalogResult[resp]
        IN  /\ log' = Append(log, Event("catalog_post", 0, 0))
            /\ req' = Request("catalog_post", 0, 0, <<>>, resp, ~r.raised /\ Truthy(r.value))
            /\ IF r.raised THEN Stop("crashed") /\ catalog' = catalog
               ELSE IF ~Truthy(r.value) THEN Stop("aborted") /\ catalog' = catalog
               ELSE catalog' = Items(r.value) /\ GotoModel(Items(r.value), 1)
    /\ UNCHANGED <<served, got, resolved, dlVars>>

\* an empty token list answered by asking again
FetchTokens_RetryOnEmpty ==
    /\ pc = "tokens"
    /\ \E resp \in TokenResponses :
        LET r == TokenResult[resp]
        IN  /\ ~r.raised => served + Len(r.value) <= MaxTokens
            /\ log' = Append(log, Event("token_post", ti, 0))
            /\ req' = Request("token_post", ti, 0, <<>>, resp, ~r.raised /\ r.value # <<>>)
            /\ served' = IF r.raised THEN served ELSE served + Len(r.value)
            /\ got' = IF r.raised \/ r.value = <<>> THEN got ELSE WriteFile(got, ti, Len(r.value))
            /\ IF r.raised THEN Stop("crashed")
               ELSE IF r.value = <<>> THEN UNCHANGED <<pc, ti, tokens, ki, url, exitCode>>
               ELSE /\ tokens' = r.value
                    /\ ki' = 1
                    /\ pc' = "refresh"
                    /\ UNCHANGED <<ti, url, exitCode>>
    /\ UNCHANGED <<catalog, resolved, dlVars>>

\* fetch_manual_access_tokens for the current model, and the empty-list test
FetchTokens ==
    /\ pc = "tokens"
    /\ \E resp \in TokenResponses :
        LET r == TokenResult[resp]
        IN  /\ ~r.raised => served + Len(r.value) <= MaxTokens
            /\ log' = Append(log, Event("token_post", ti, 0))
            /\ req' = Request("token_post", ti, 0, <<>>, resp, ~r.raised /\ r.value # <<>>)
            /\ served' = IF r.raised THEN served ELSE served + Len(r.value)
            /\ got' = IF r.raised \/ r.value = <<>> THEN got ELSE WriteFile(got, ti, Len(r.value))
            /\ IF r.raised THEN Stop("crashed")
               ELSE IF r.value = <<>> THEN GotoModel(catalog, ti + 1)
               ELSE /\ tokens' = r.value
                    /\ ki' = 1
                    /\ pc' = "refresh"
                    /\ UNCHANGED <<ti, url, exitCode>>
    /\ UNCHANGED <<catalog, resolved, dlVars>>

\* a failed refresh treated as fatal for the token: the exchange is skipped
Refresh_SkipOnFailure ==
    /\ pc = "refresh"
    /\ \E resp \in RefreshResponses :
        /\ req' = Request("refresh_get", ti, ki, <<>>, NoResp,
                          establish_technical_session_cookies(resp))
        /\ IF establish_technical_session_cookies(resp)
           THEN pc' = "resolve" /\ UNCHANGED <<ti, tokens, ki, url, exitCode>>
           ELSE AfterToken
    /\ log' = Append(log, Event("refresh_get", ti, ki))
    /\ UNCHANGED <<served, got, resolved, catalog, dlVars>>

\* establish_technical_session_cookies for the current token
Refresh ==
    /\ pc = "refresh"
    /\ \E resp \in RefreshResponses :
        req' = Request("refresh_get", ti, ki, <<>>, NoResp,
                       establish_technical_session_cookies(resp))
    /\ log' = Append(log, Event("refresh_get", ti, ki))
    /\ pc' = "resolve"
    /\ UNCHANGED <<served, got, resolved, catalog, ti, tokens, ki, url, exitCode, dlVars>>

\* resolve_pdf_url_from_token for the current token, and the test of its result
Resolve ==
    /\ pc = "resolve"
    /\ \E resp \in ExchangeResponses :
        /\ req' = Request("exchange_post", ti, ki, tokens[ki].v, NoResp, Resolved[resp] # <<>>)
        /\ resolved' = IF Resolved[resp] # <<>> THEN resolved \cup {<<ti, ki>>} ELSE resolved
        /\ IF Resolved[resp] # <<>>
           THEN /\ url' = Resolved[resp]
                /\ pc' = "download"
                /\ UNCHANGED <<ti, tokens, ki, exitCode>>
           ELSE AfterToken
    /\ log' = Append(log, Event("exchange_post", ti, ki))
    /\ UNCHANGED <<served, got, catalog, dlVars>>

\* the path derivation and download_file_to_disk for the resolved URL
Download ==
    /\ pc = "download"
    /\ LET p == PathOf[catalog[ti], ki - 1, url]
       IN  \E resp \in RunResponses :
            LET out == download_file_to_disk(fs, resp, p)
            IN  /\ fs' = out.fs
                /\ log' = log \o DownloadEvents(out, ti, ki, p)
                /\ req' = DownloadRequest(out, ti, ki, p, req)
                /\ last' = Record("download_file_to_disk", p, fs, out)
                /\ downloaded' = RecordSuccess(downloaded, p, out, resp)
    /\ ncalls' = ncalls + 1
    /\ AfterToken
    /\ UNCHANGED <<served, got, resolved, catalog>>

NextRun == FetchCatalog \/ FetchTokens \/ Refresh \/ Resolve \/ Download

SpecRun == InitRun /\ [][NextRun]_vars

----------------------------------------------------------------------------
(* Properties of the dynamic-mode run, under SpecRun.                      *)

IsNetwork(e) == e.kind \in NetworkKinds

\* the network requests of the process, in order
NetLog == SelectSeq(log, IsNetwork)

\* main() has returned or the process has died
Ended == exitCode # -1

\* what was done for token k of model t, in order; the document GET belongs
\* to the download attempt
TokenEvents(t, k) ==
    LET Mine(e) == e.t = t /\ e.k = k /\ e.kind # "document_get"
        mine == SelectSeq(log, Mine)
    IN  [i \in 1..Len(mine) |-> mine[i].kind]

\* a record the loop processes: an object with a truthy year and name
IsTarget(car_model) ==
    /\ HasGet(car_model)
    /\ Truthy(DictGet(car_model, "modelYear", JNull))
    /\ Truthy(DictGet(car_model, "modelName", JNull))

\* C5: every token-exchange POST comes right after a session-refresh GET made
\* for the same token, with no other network request between the two.
C5_ExchangeRightAfterRefresh ==
    \A i \in 1..Len(NetLog) :
        NetLog[i].kind = "exchange_post"
            => /\ i > 1
               /\ NetLog[i - 1] = Event("refresh_get", NetLog[i].t, NetLog[i].k)

\* the second token of a model is exchanged after the first one was downloaded
C5_Witness ==
    \E i \in 3..Len(NetLog) :
        /\ NetLog[i].kind = "exchange_post"
        /\ NetLog[i].k = 2
        /\ NetLog[i - 2].kind = "document_get"

CatalogEmpty ==
    /\ req.kind = "catalog_post"
    /\ ~CatalogResult[req.resp].raised
    /\ ~Truthy(CatalogResult[req.resp].value)

\* C7: when the catalog call yields an empty list the run aborts with exit
\* code 1, the catalog POST being the only request made.
C7_EmptyCatalogAborts ==
    CatalogEmpty => /\ pc = "aborted"
                    /\ exitCode = 1
                    /\ log = <<Event("catalog_post", 0, 0)>>

\* the abort on a well-formed response whose vehicleModelHU list is empty
C7_Witness ==
    /\ pc = "aborted"
    /\ req.resp.conn = "ok"
    /\ req.resp.body = JObj([payload |-> JObj([vehicleModelHU |-> JList(<<>>)])])

\* C8: the process ends with a non-zero exit only right after a catalog call
\* (stated for catalogs whose records are all objects).
C8_NonZeroExitOnlyFromCatalog ==
    (exitCode > 0 /\ \A i \in 1..Len(catalog) : HasGet(catalog[i]))
        => req.kind = "catalog_post"

\* C9: once a run over a non-empty catalog has ended, every target has had its
\* token-list request and every token obtained its URL-resolution attempt.
C9_EveryItemAttempted ==
    (Ended /\ catalog # <<>> /\ \A i \in 1..Len(catalog) : HasGet(catalog[i]))
        => /\ \A t \in 1..Len(catalog) :
                IsTarget(catalog[t]) => \E i \in 1..Len(log) : log[i] = Event("token_post", t, 0)
           /\ \A t \in DOMAIN got : \A k \in 1..got[t] :
                \E i \in 1..Len(log) : log[i] = Event("exchange_post", t, k)

\* the body has the shape {payload: {automatedManuals: [{...}, ...]}}
WellShapedTokens(body) ==
    /\ body.t = "obj"
    /\ "payload" \in DOMAIN body.v
    /\ body.v.payload.t = "obj"
    /\ "automatedManuals" \in DOMAIN body.v.payload.v
    /\ body.v.payload.v.automatedManuals.t = "list"
    /\ \A i \in 1..Len(body.v.payload.v.automatedManuals.v) :
            body.v.payload.v.automatedManuals.v[i].t = "obj"

\* a network failure, an HTTP error status, or an undecodable or wrongly shaped body
TokenFailure(resp) ==
    resp.conn = "error" \/ resp.status >= 400 \/ ~WellShapedTokens(resp.body)

\* C10: after a failed token-list call the run neither aborts nor dies, and
\* nothing but that call has been done for the target.
C10_TokenFailureSkipsTarget ==
    (req.kind = "token_post" /\ TokenFailure(req.resp))
        => /\ exitCode \in {-1, 0}
           /\ \A i \in 1..Len(log) : log[i].t = req.t => log[i].kind = "token_post"

\* the body has the shape {payload: {vehicleModelHU: [...]}}
WellShapedCatalog(body) ==
    /\ body.t = "obj"
    /\ "payload" \in DOMAIN body.v
    /\ body.v.payload.t = "obj"
    /\ "vehicleModelHU" \in DOMAIN body.v.payload.v
    /\ body.v.payload.v.vehicleModelHU.t = "list"

\* a network failure, an HTTP error status, an undecodable body, or a body in
\* which payload / vehicleModelHU is missing or not of the expected shape
CatalogFailure(resp) ==
    resp.conn = "error" \/ resp.status >= 400 \/ ~WellShapedCatalog(resp.body)

\* C11: on a network failure, an HTTP error status, an undecodable body or a
\* body without a well-shaped payload / vehicleModelHU, fetch_all_model_years
\* returns an empty list and does not raise.
C11_CatalogFailureReturnsEmpty ==
    (req.kind = "catalog_post" /\ CatalogFailure(req.resp))
        => CatalogResult[req.resp] = Returned(JList(<<>>))

\* the session refresh for the current token has just failed
RefreshFailed == req.kind = "refresh_get" /\ ~req.ok

\* C12: after a failed session refresh the run has not ended, and the next
\* thing it does is the token exchange for that same token.
C12_ExchangeFollowsFailedRefresh ==
    [][RefreshFailed
            => /\ exitCode = -1
               /\ pc = "resolve"
               /\ log' = Append(log, Event("exchange_post", req.t, req.k))
               /\ req'.kind = "exchange_post"
               /\ req'.arg = tokens[req.k].v]_vars

\* the refresh for the second token of a model failed and its exchange is due
C12_Witness ==
    /\ RefreshFailed
    /\ req.k = 2
    /\ pc = "resolve"
    /\ ki = 2
    /\ exitCode = -1

----------------------------------------------------------------------------
(* SpecCall: one download call on an empty archive, with the response it   *)
(* met kept in req.                                                        *)

\* final statuses of the document GET: 304 stands for the 3xx responses that
\* requests hands back (no Location header to follow)
CallStatuses == {200, 206, 304, 404}

\* what the document GET can meet, every status with every body
CallResponses ==
    {[conn |-> "error", status |-> 0, ctype |-> <<>>, chunks |-> <<>>, fault |-> NoFault]}
    \cup UNION {{[conn |-> "ok", status |-> s, ctype |-> ct, chunks |-> ch, fault |-> f] :
                    s \in CallStatuses, ct \in AllContentTypes, f \in Faults(ch)} :
                ch \in SeqsUpTo(ChunkSizes, MaxChunks)}

\* the call just made, its request in full
CallRecorded(fn, p, resp, out) ==
    /\ fs' = out.fs
    /\ log' = log \o DownloadEvents(out, 0, 0, p)
    /\ req' = Request("document_get", 0, 0, p, resp, out.result = "downloaded")
    /\ last' = Record(fn, p, fs, out)
    /\ downloaded' = RecordSuccess(downloaded, p, out, resp)
    /\ ncalls' = ncalls + 1
    /\ Idle

FirstDownloadFileToDisk ==
    /\ last = NoCall
    /\ \E p \in DlPaths, resp \in CallResponses :
        CallRecorded("download_file_to_disk", p, resp, download_file_to_disk(fs, resp, p))

FirstDownloadPdf ==
    /\ last = NoCall
    /\ \E u \in DlUrls, resp \in CallResponses :
        CallRecorded("download_pdf", DlDest[u], resp, download_pdf(fs, resp, DlDest[u]))

NextCall == FirstDownloadFileToDisk \/ FirstDownloadPdf

SpecCall == InitDl /\ [][NextCall]_vars

\* a download call has been made and req holds the response it met
Made == last.fn # "none"

\* C13: a call of download_pdf on an empty archive in which an exception is
\* raised while the body is streamed to disk returns failure and leaves no
\* file at the destination path.
C13_PdfStreamFaultLeavesNoFile ==
    (Made /\ last.fn = "download_pdf" /\ last.opened
          /\ req.resp.fault.kind \in {"stream", "write"})
        => /\ last.result = "failed"
           /\ ~Exists(fs, last.path)

\* the stream broke after the first chunk of a two-chunk body had been written
C13_Witness ==
    /\ Made
    /\ last.fn = "download_pdf"
    /\ last.opened
    /\ req.resp.fault = [kind |-> "stream", at |-> 1]
    /\ req.resp.chunks = <<1, 1>>
    /\ ~Exists(fs, last.path)

\* a 2xx response received in full whose body holds no byte
ZeroByteSuccess(resp) ==
    /\ resp.conn = "ok"
    /\ resp.status \in 200..299
    /\ resp.fault = NoFault
    /\ BodySize(resp) = 0

\* C14: a call that met a 2xx response with a zero-byte body returns failure
\* and leaves no file at the destination path, and a later call for that path,
\* by either routine and whatever it meets, is not a skip.
C14_ZeroBytesLeaveNoFile ==
    (Made /\ ZeroByteSuccess(req.resp))
        => /\ last.result = "failed"
           /\ ~Exists(fs, last.path)
           /\ \A resp \in CallResponses :
                /\ download_file_to_disk(fs, resp, last.path).result # "skipped"
                /\ download_pdf(fs, resp, last.path).result # "skipped"

\* download_file_to_disk opened the file for a 200 response of one empty chunk
C14_Witness ==
    /\ Made
    /\ last.fn = "download_file_to_disk"
    /\ last.opened
    /\ req.resp.status = 200
    /\ req.resp.chunks = <<0>>
    /\ req.resp.fault = NoFault
    /\ last.result = "failed"
    /\ ~Exists(fs, last.path)

\* C15: a call whose document GET was answered with a status outside 2xx
\* returns failure and never opens the destination file for writing.
C15_Non2xxNeverOpensFile ==
    (Made /\ req.resp.conn = "ok" /\ req.resp.status \notin 200..299)
        => /\ last.result = "failed"
           /\ ~last.opened
           /\ ~Exists(fs, last.path)

\* C16: a 200 response met by download_pdf is saved exactly when its content
\* type is application/pdf or an octet-stream type (stated for non-empty
\* bodies received without fault), and with any other content type the call
\* fails without the destination file ever being opened.
C16_SavedIffAllowedContentType ==
    LET octet_stream == <<"o","c","t","e","t","-","s","t","r","e","a","m">>
        allowed == \/ Contains(Lower(req.resp.ctype), APPLICATION_PDF)
                   \/ Contains(Lower(req.resp.ctype), octet_stream)
    IN  (Made /\ last.fn = "download_pdf" /\ req.resp.conn = "ok"
              /\ req.resp.status = STATUS_OK)
            => /\ (req.resp.fault = NoFault /\ BodySize(req.resp) > 0)
                    => (Exists(fs, last.path) <=> allowed)
               /\ ~allowed
                    => (last.result = "failed" /\ ~last.opened /\ ~Exists(fs, last.path))

----------------------------------------------------------------------------
(* SpecSilent: the dynamic-mode run against a backend that may also stop   *)
(* answering.  A call made with a timeout then raises requests' Timeout, a *)
(* RequestException, which is the conn = "error" response of SpecRun; a    *)
(* call made without one never returns.                                    *)

\* the timeout argument of each network call, in seconds; <<>> where none is
\* passed (requests then waits without limit)
TimeoutOf ==
    [catalog_post |-> <<>>, token_post |-> <<>>, refresh_get |-> <<10>>,
     exchange_post |-> <<10>>, document_get |-> <<900>>]

\* the catalog POST is sent and never answered; req, the last request that
\* completed, stays
AwaitCatalog ==
    /\ pc = "start"
    /\ TimeoutOf.catalog_post = <<>>
    /\ log' = Append(log, Event("catalog_post", 0, 0))
    /\ pc' = "blocked"
    /\ UNCHANGED <<req, served, got, resolved, catalog, ti, tokens, ki, url, exitCode, dlVars>>

\* the token POST of the current model is sent and never answered
AwaitTokens ==
    /\ pc = "tokens"
    /\ TimeoutOf.token_post = <<>>
    /\ log' = Append(log, Event("token_post", ti, 0))
    /\ pc' = "blocked"
    /\ UNCHANGED <<req, served, got, resolved, catalog, ti, tokens, ki, url, exitCode, dlVars>>

NextSilent == NextRun \/ AwaitCatalog \/ AwaitTokens

SpecSilent == InitRun /\ [][NextSilent]_vars

\* C17: every network call of the run is bounded by a timeout, so the run is
\* never left waiting in a call that cannot return.
C17_NoCallWaitsForever == pc # "blocked"

----------------------------------------------------------------------------
(* SpecSan: the three filename sanitizers applied to a URL or path, and    *)
(* applied again to the name they returned.                                *)

MaxParts == 3          \* pieces the input string is put together from
MaxApplications == 2   \* times a sanitizer is applied, each to the previous result

\* pieces of URLs: letters of both cases, digits, separators, an escape
\* character, extensions and a non-ASCII character
Parts ==
    {<<"a">>, <<"B">>, <<"2","5">>, <<"_">>, <<".">>, <<"/">>, <<"?">>, <<"%">>,
     <<".","p","d","f">>, <<"_","p","d","f">>, <<NON_ASCII_CHAR>>}

RECURSIVE Concat(_)
Concat(ss) == IF ss = <<>> THEN <<>> ELSE Head(ss) \o Concat(Tail(ss))

SanInputs == {Concat(ss) : ss \in SeqsUpTo(Parts, MaxParts)}

\* a sanitizer call and the name it returned
Sanitized(fn, name) ==
    [fn |-> fn, path |-> name, existed |-> FALSE, result |-> "returned",
     requested |-> FALSE, opened |-> FALSE]

InitSan ==
    /\ url \in SanInputs
    /\ fs = EmptyFs
    /\ log = <<>>
    /\ req = NoRequest
    /\ served = 0
    /\ got = <<>>
    /\ resolved = {}
    /\ last = NoCall
    /\ ncalls = 0
    /\ downloaded = EmptyFs
    /\ pc = "idle"
    /\ catalog = <<>>
    /\ ti = 0
    /\ tokens = <<>>
    /\ ki = 0
    /\ exitCode = -1

\* fn is applied to url the first time, to the name it returned after that;
\* url keeps the argument of the application
Applies(fn) ==
    /\ ncalls < MaxApplications
    /\ last.fn \in {"none", fn}
    /\ url' = IF last = NoCall THEN url ELSE last.path
    /\ ncalls' = ncalls + 1
    /\ pc = "idle"
    /\ UNCHANGED <<fs, log, req, served, got, resolved, downloaded, pc, catalog, ti, tokens, ki,
                   exitCode>>

SanitizePrimaryModeFilename ==
    /\ Applies("sanitize_primary_mode_filename")
    /\ last' = Sanitized("sanitize_primary_mode_filename", sanitize_primary_mode_filename(url'))

CreateKgisSafeFilename ==
    /\ Applies("create_kgis_safe_filename")
    /\ last' = Sanitized("create_kgis_safe_filename", create_kgis_safe_filename(url'))

UrlToFilename ==
    /\ Applies("url_to_filename")
    /\ last' = Sanitized("url_to_filename", url_to_filename(url'))

NextSan == SanitizePrimaryModeFilename \/ CreateKgisSafeFilename \/ UrlToFilename

SpecSan == InitSan /\ [][NextSan]_vars

\* C18: sanitize_primary_mode_filename applied to a name it returned returns
\* that name: sanitize(sanitize(x)) = sanitize(x).
C18_SanitizeIdempotent ==
    (last.fn = "sanitize_primary_mode_filename" /\ ncalls >= 2) => last.path = url

\* the second application, on a name the first had to change the input to get
C18_Witness ==
    /\ last.fn = "sanitize_primary_mode_filename"
    /\ ncalls = 2
    /\ url = <<"a","_","b",".","p","d","f">>
    /\ last.path = url

\* C19: the name sanitize_primary_mode_filename returns ends in .pdf, and the
\* part before that extension holds only characters of [a-z0-9_.] and neither
\* starts nor ends with an underscore.
C19_SanitizedNameWellFormed ==
    last.fn = "sanitize_primary_mode_filename"
        => /\ EndsWith(last.path, PDF_EXT)
           /\ LET stem == Slice(last.path, 1, Len(last.path) - Len(PDF_EXT))
              IN  /\ \A i \in 1..Len(stem) : stem[i] \in LowerLetters \cup Digits \cup {"_", "."}
                  /\ stem # <<>> => (stem[1] # "_" /\ stem[Len(stem)] # "_")

\* an input with outer underscores, an inner separator and an upper-case letter
C19_Witness ==
    /\ last.fn = "sanitize_primary_mode_filename"
    /\ ncalls = 1
    /\ url = <<"_", "B", "?">>
    /\ last.path = <<"b", ".", "p", "d", "f">>

\* C20: for every (non-empty) input URL the static-mode sanitizers,
\* create_kgis_safe_filename and url_to_filename, return a non-empty name
\* that ends in an extension.
C20_StaticNameHasExtension ==
    (last.fn \in {"create_kgis_safe_filename", "url_to_filename"} /\ ncalls = 1 /\ url # <<>>)
        => /\ last.path # <<>>
           /\ SplitExt(last.path) # <<>>

----------------------------------------------------------------------------
(* SpecResolve: one call of resolve_pdf_url_from_token, on an exchange     *)
(* response whose page is put together from tags.                          *)

MaxTags == 3       \* tags in the page of the exchange response

SRC_HTML == <<"/","x">>

SRC_A == <<"/","a",".","p","d","f">>

SRC_C == <<"/","c",".","p","d","f">>

SRC_UPPER == <<"/","B",".","P","D","F">>

\* a tag of the page: a paragraph, an iframe whose first attribute is src, or
\* an iframe with an id attribute before src
Tags ==
    {[el |-> "p", attr |-> "none", src |-> <<>>]}
    \cup {[el |-> "iframe", attr |-> "src", src |-> sr] : sr \in {SRC_HTML, SRC_A, SRC_C, SRC_UPPER}}
    \cup {[el |-> "iframe", attr |-> "id", src |-> SRC_A]}

\* the HTML text of a tag
TagText(tag) ==
    IF tag.el = "p" THEN <<"<","p",">">>
    ELSE IF tag.attr = "src" THEN IFRAME_OPEN \o tag.src \o <<"\"",">">>
    ELSE <<"<","i","f","r","a","m","e"," ","i","d","=","\"","v","\""," ","s","r","c","=","\"">>
         \o tag.src \o <<"\"",">">>

RECURSIVE PageText(_)
PageText(tags) == IF tags = <<>> THEN <<>> ELSE TagText(Head(tags)) \o PageText(Tail(tags))

\* the exchange responses: no connection, or a status with a page
ResolveResponses ==
    {[conn |-> "error", status |-> 0, text |-> <<>>, tags |-> <<>>]}
    \cup {[conn |-> "ok", status |-> st, text |-> PageText(tags), tags |-> tags] :
            st \in {STATUS_OK, 403}, tags \in SeqsUpTo(Tags, MaxTags)}

\* resolve_pdf_url_from_token for one token; url holds what it returned
ResolveOnce ==
    /\ req = NoRequest
    /\ \E resp \in ResolveResponses :
        /\ url' = resolve_pdf_url_from_token(resp)
        /\ req' = Request("exchange_post", 0, 0, TOKEN_1.v.accessPayload.v, resp,
                          resolve_pdf_url_from_token(resp) # <<>>)
    /\ log' = Append(log, Event("exchange_post", 0, 0))
    /\ pc = "idle"
    /\ UNCHANGED <<fs, served, got, resolved, last, ncalls, downloaded, pc, catalog, ti, tokens,
                   ki, exitCode>>

NextResolve == ResolveOnce

SpecResolve == InitDl /\ [][NextResolve]_vars

\* the exchange was answered without a transport error or an HTTP error status
ExchangeAnswered(resp) == resp.conn = "ok" /\ resp.status < 400

\* C21 as stated: resolve_pdf_url_from_token returns the base URL followed by
\* the src of the first iframe of the page whose src ends in .pdf, and the
\* empty result when the page has no such iframe or the exchange fails.
C21_FirstPdfIframeOfAnyForm ==
    LET IsPdfIframe(tag) == tag.el = "iframe" /\ EndsWith(tag.src, PDF_EXT)
        hits == SelectSeq(req.resp.tags, IsPdfIframe)
    IN  req.kind = "exchange_post"
            => url = IF ExchangeAnswered(req.resp) /\ hits # <<>>
                     THEN TECH_INFO_BASE_DOMAIN \o hits[1].src
                     ELSE <<>>

\* C21 amended: resolve_pdf_url_from_token returns the base URL followed by
\* the src of the first iframe written with src as its first attribute whose
\* src ends in .pdf, and the empty result when the page has no such iframe or
\* the exchange fails.
C21_FirstPdfIframeWithLeadingSrc ==
    LET IsMatch(tag) == tag.el = "iframe" /\ tag.attr = "src" /\ EndsWith(tag.src, PDF_EXT)
        hits == SelectSeq(req.resp.tags, IsMatch)
    IN  req.kind = "exchange_post"
            => url = IF ExchangeAnswered(req.resp) /\ hits # <<>>
                     THEN TECH_INFO_BASE_DOMAIN \o hits[1].src
                     ELSE <<>>

\* a page with an iframe that is no PDF, then two PDF iframes: the first is returned
C21_Witness ==
    /\ req.kind = "exchange_post"
    /\ req.resp.status = STATUS_OK
    /\ req.resp.tags = <<[el |-> "iframe", attr |-> "src", src |-> SRC_HTML],
                         [el |-> "iframe", attr |-> "src", src |-> SRC_C],
                         [el |-> "iframe", attr |-> "src", src |-> SRC_A]>>
    /\ url = TECH_INFO_BASE_DOMAIN \o SRC_C

----------------------------------------------------------------------------
(* Static-page extraction (main.py extract_static_pdf_paths, downloader.py *)
(* extract_pdf_files), and SpecExtract: one call of either on a page put   *)
(* together from links.                                                    *)

FILE_SERVER_ROOT == <<"/","F","i","l","e","S","e","r","v","e","r","R","o","o","t">>

SINGLE_QUOTE == <<"'">>

\* the match of \'(/FileServerRoot[^\']+\.pdf)\' that starts at position i of
\* html, as [path, next] with next the position after the closing quote, or
\* next = 0 when there is none: the text between the quote at i and the next
\* quote, if it is /FileServerRoot, one character or more, then .pdf
QuotedPdfAt(html, i) ==
    LET rest == Slice(html, i + 1, Len(html))
        q == Find(rest, "'")
        inner == Slice(rest, 1, q - 1)
    IN  IF html[i] = "'" /\ q > 0 /\ StartsWith(inner, FILE_SERVER_ROOT)
           /\ Len(inner) > Len(FILE_SERVER_ROOT) + Len(PDF_EXT) /\ EndsWith(inner, PDF_EXT)
        THEN [path |-> inner, next |-> i + q + 1]
        ELSE [path |-> <<>>, next |-> 0]

\* pattern.findall(html) from position i on: matches from left to right, each
\* search resuming after the previous match
RECURSIVE FindAllFrom(_, _)
FindAllFrom(html, i) ==
    IF i > Len(html) THEN <<>>
    ELSE IF QuotedPdfAt(html, i).next = 0 THEN FindAllFrom(html, i + 1)
    ELSE <<QuotedPdfAt(html, i).path>> \o FindAllFrom(html, QuotedPdfAt(html, i).next)

extract_static_pdf_paths(html_content) == FindAllFrom(html_content, 1)

extract_pdf_files(html_content) == FindAllFrom(html_content, 1)

MaxLinks == 2      \* links in the page handed to the extraction

PATH_A == FILE_SERVER_ROOT \o <<"/","a",".","p","d","f">>

\* the name of PATH_A in another directory
PATH_B_A == FILE_SERVER_ROOT \o <<"/","b","/","a",".","p","d","f">>

PATH_UPPER == FILE_SERVER_ROOT \o <<"/","a","b","c","/","g","u","i","d","e",".","P","D","F">>

PATH_OTHER_ROOT == <<"/","O","t","h","e","r","/","a",".","p","d","f">>

PATH_HTML == FILE_SERVER_ROOT \o <<"/","i",".","h","t","m","l">>

\* a link of the page: the path and the quote character around it
Links ==
    {[quote |-> SINGLE_QUOTE, path |-> pa] :
        pa \in {PATH_A, PATH_B_A, PATH_UPPER, PATH_OTHER_ROOT, PATH_HTML}}
    \cup {[quote |-> <<"\"">>, path |-> PATH_A]}

LinkText(link) ==
    <<"<","a"," ","h","r","e","f","=">> \o link.quote \o link.path \o link.quote \o <<">">>

RECURSIVE PageHtml(_)
PageHtml(links) == IF links = <<>> THEN <<>> ELSE LinkText(Head(links)) \o PageHtml(Tail(links))

\* catalog holds the links of the page, url its HTML
InitExtract ==
    /\ catalog \in SeqsUpTo(Links, MaxLinks)
    /\ url = PageHtml(catalog)
    /\ fs = EmptyFs
    /\ log = <<>>
    /\ req = NoRequest
    /\ served = 0
    /\ got = <<>>
    /\ resolved = {}
    /\ last = NoCall
    /\ ncalls = 0
    /\ downloaded = EmptyFs
    /\ pc = "idle"
    /\ tokens = <<>>
    /\ ti = 0
    /\ ki = 0
    /\ exitCode = -1

\* one extraction; tokens holds the list it returned
Extracts(fn, paths) ==
    /\ last = NoCall
    /\ tokens' = paths
    /\ last' = [NoCall EXCEPT !.fn = fn, !.result = "returned"]
    /\ ncalls' = ncalls + 1
    /\ UNCHANGED <<fs, log, req, served, got, resolved, downloaded, pc, catalog, ti, ki, url,
                   exitCode>>

ExtractStaticPdfPaths == Extracts("extract_static_pdf_paths", extract_static_pdf_paths(url))

ExtractPdfFiles == Extracts("extract_pdf_files", extract_pdf_files(url))

NextExtract == ExtractStaticPdfPaths \/ ExtractPdfFiles

SpecExtract == InitExtract /\ [][NextExtract]_vars

\* C22: the extraction returns, in document order and without quotes, the
\* path of every single-quoted link that starts with /FileServerRoot and ends
\* in a pdf extension of any case, such as '/FileServerRoot/abc/guide.PDF'.
C22_EveryQuotedPdfPathExtracted ==
    LET IsQuotedPdf(link) ==
            /\ link.quote = SINGLE_QUOTE
            /\ StartsWith(link.path, FILE_SERVER_ROOT)
            /\ EndsWith(Lower(link.path), PDF_EXT)
        wanted == SelectSeq(catalog, IsQuotedPdf)
    IN  last.fn \in {"extract_static_pdf_paths", "extract_pdf_files"}
            => tokens = [i \in 1..Len(wanted) |-> wanted[i].path]

----------------------------------------------------------------------------
(* SpecRerun: main.py in dynamic mode run again on the archive the run     *)
(* before left, the catalog and the token list answered the same way in    *)
(* every run; the exchange and the document GET answer as they like.       *)

MaxRuns == 2       \* runs of the program on the same archive

RerunCatalog == JObj([payload |-> JObj([vehicleModelHU |-> JList(<<MODEL_A>>)])])

RerunTokens == JObj([payload |-> JObj([automatedManuals |-> JList(<<TOKEN_1, TOKEN_2>>)])])

\* the document responses of a rerun: no connection, and the one-chunk body
\* with and without a fault
RerunResponses == {r \in RunResponses : r.conn = "error" \/ (r.status = STATUS_OK /\ r.chunks = <<1>>)}

\* the runs started so far
Runs == Cardinality({i \in DOMAIN log : log[i].kind = "catalog_post"})

RerunFetchCatalog == FetchCatalog /\ req'.resp.body = RerunCatalog

RerunFetchTokens == FetchTokens /\ req'.resp.body = RerunTokens

\* resolve_pdf_url_from_token and the test of its result; resolved keeps the
\* run, the token and the URL of each resolution
RerunResolve ==
    /\ pc = "resolve"
    /\ \E resp \in RerunExchangeResponses :
        LET pdf_download_url == Resolved[resp]
        IN  /\ req' = Request("exchange_post", ti, ki, tokens[ki].v, NoResp,
                              pdf_download_url # <<>>)
            /\ resolved' = IF pdf_download_url # <<>>
                           THEN resolved \cup {<<Runs, ti, ki, pdf_download_url>>}
                           ELSE resolved
            /\ IF pdf_download_url # <<>>
               THEN /\ url' = pdf_download_url
                    /\ pc' = "download"
                    /\ UNCHANGED <<ti, tokens, ki, exitCode>>
               ELSE AfterToken
    /\ log' = Append(log, Event("exchange_post", ti, ki))
    /\ UNCHANGED <<served, got, catalog, dlVars>>

\* the path derivation and download_file_to_disk; the log also keeps the
\* success message of the download
RerunDownload ==
    /\ pc = "download"
    /\ LET p == PathOf[catalog[ti], ki - 1, url]
       IN  \E resp \in RerunResponses :
            LET out == download_file_to_disk(fs, resp, p)
            IN  /\ fs' = out.fs
                /\ log' = log \o DownloadEvents(out, ti, ki, p)
                              \o (IF out.result = "downloaded"
                                  THEN <<Event("saved", ti, ki)>> ELSE <<>>)
                /\ req' = DownloadRequest(out, ti, ki, p, req)
                /\ last' = Record("download_file_to_disk", p, fs, out)
                /\ downloaded' = RecordSuccess(downloaded, p, out, resp)
    /\ ncalls' = ncalls + 1
    /\ AfterToken
    /\ UNCHANGED <<served, got, resolved, catalog>>

\* the program started again: a new process on the archive as it is
Rerun ==
    /\ pc = "done"
    /\ Runs < MaxRuns
    /\ pc' = "start"
    /\ req' = NoRequest
    /\ served' = 0
    /\ got' = <<>>
    /\ catalog' = <<>>
    /\ ti' = 0
    /\ tokens' = <<>>
    /\ ki' = 0
    /\ url' = <<>>
    /\ exitCode' = -1
    /\ UNCHANGED <<fs, log, resolved, last, ncalls, downloaded>>

NextRerun ==
    RerunFetchCatalog \/ RerunFetchTokens \/ Refresh \/ RerunResolve \/ RerunDownload \/ Rerun

SpecRerun == InitRun /\ [][NextRerun]_vars

\* the run the log entry at position i belongs to
RunAt(i) == Cardinality({j \in 1..i : log[j].kind = "catalog_post"})

\* C23 (as stated): once a run has saved the document of a token, no later
\* run issues a document GET for the token at that ordinal of that target.
C23_RerunSkipsSavedToken ==
    \A i, j \in DOMAIN log :
        (i < j /\ log[i].kind = "saved" /\ log[j].kind = "document_get")
            => ~(log[j].t = log[i].t /\ log[j].k = log[i].k)

\* C23 (amended): once a run has saved the document of a token, no later run
\* in which the exchange resolves the token at that ordinal to the same URL
\* issues a document GET for it: it finds the file at the same path and skips.
C23_RerunSkipsSavedUrl ==
    \A i, j \in DOMAIN log :
        (/\ i < j
         /\ log[i].kind = "saved"
         /\ log[j].kind = "document_get"
         /\ log[j].t = log[i].t
         /\ log[j].k = log[i].k)
            => ~\E r \in resolved :
                    /\ r[1] = RunAt(i)
                    /\ r[2] = log[i].t
                    /\ r[3] = log[i].k
                    /\ <<RunAt(j), r[2], r[3], r[4]>> \in resolved

\* a second run has skipped the token a first run saved from the same URL
C23_Witness ==
    /\ Runs = 2
    /\ last.result = "skipped"
    /\ \E i \in DOMAIN log :
        /\ log[i].kind = "saved"
        /\ RunAt(i) = 1
        /\ log[Len(log)] = Event("download_call", log[i].t, log[i].k)
        /\ \E r \in resolved : r[1] = 1 /\ r[2] = log[i].t /\ r[3] = log[i].k
                               /\ <<2, r[2], r[3], r[4]>> \in resolved

----------------------------------------------------------------------------
(* Static mode: execute_kgis_static_download (main.py --KGIS) and main of  *)
(* downloader.py. SpecStatic: one run of either over the four pages.       *)

\* the four pages, by the last segment of their URLs; downloader.py lists the same
KGIS_STATIC_PAGE_URLS ==
    <<"KiaEmergencyResponseGuide.aspx", "J2534DiagnosticsAndProgramming.aspx",
      "KiaPositioningStatements.aspx", "SeatBeltInstallationGuide.aspx">>

KGIS_DOWNLOAD_BASE_URL ==
    <<"h","t","t","p","s",":","/","/","k","i","a","t","e","c","h","i","n","f","o",".",
      "s","n","a","p","o","n",".","c","o","m">>

\* session.get(target_url, timeout=15), raise_for_status, response.text
scrape_static_page_html(resp) ==
    IF resp.conn = "error" \/ RaisesForStatus(resp) THEN <<>> ELSE resp.text

\* the calls made on the driver, in order, with "Chrome" for its creation
DriverCalls == <<"Chrome", "set_page_load_timeout", "get", "until", "page_source", "quit">>

\* browser.fails: the call that raises ("none": no call does); browser.page:
\* the rendered HTML. raised: an exception leaves the function
scrape_page_html_with_chrome(browser) ==
    LET Upto(name) == Slice(DriverCalls, 1, CHOOSE i \in DOMAIN DriverCalls : DriverCalls[i] = name)
    IN  IF browser.fails = "Chrome"
        THEN [html |-> <<>>, raised |-> FALSE, calls |-> Upto("Chrome")]
        ELSE IF browser.fails = "set_page_load_timeout"
        THEN [html |-> <<>>, raised |-> TRUE, calls |-> Upto("set_page_load_timeout")]
        ELSE IF browser.fails \in {"get", "until", "page_source"}
        THEN [html |-> <<>>, raised |-> FALSE, calls |-> Upto(browser.fails) \o <<"quit">>]
        ELSE [html |-> IF browser.fails = "quit" THEN <<>> ELSE browser.page,
              raised |-> browser.fails = "quit", calls |-> DriverCalls]

\* the links of the pages of a run
StaticLinks == {[quote |-> SINGLE_QUOTE, path |-> pa] : pa \in {PATH_A, PATH_B_A, PATH_HTML}}

StaticPages == {PageHtml(links) : links \in SeqsUpTo(StaticLinks, MaxLinks)}

StaticPageResponses ==
    {[conn |-> "error", status |-> 0, text |-> <<>>],
     [conn |-> "ok", status |-> 404, text |-> PageHtml(<<[quote |-> SINGLE_QUOTE, path |-> PATH_A]>>)]}
    \cup {[conn |-> "ok", status |-> STATUS_OK, text |-> pg] : pg \in StaticPages}

\* the browsers in which one call raises, on the pages of faulty, and those
\* in which none does, on the pages of pages
Browsers(faulty, pages) ==
    {[fails |-> DriverCalls[i], page |-> pg] : i \in DOMAIN DriverCalls, pg \in faulty}
    \cup {[fails |-> "none", page |-> pg] : pg \in pages}

\* the program is chosen at the start: pc is kgis_page or chrome_page
InitStatic ==
    /\ pc \in {"kgis_page", "chrome_page"}
    /\ ti = 1
    /\ fs = EmptyFs
    /\ log = <<>>
    /\ req = NoRequest
    /\ served = 0
    /\ got = <<>>
    /\ resolved = {}
    /\ last = NoCall
    /\ ncalls = 0
    /\ downloaded = EmptyFs
    /\ catalog = <<>>
    /\ tokens = <<>>
    /\ ki = 0
    /\ url = <<>>
    /\ exitCode = -1

\* the loop over the pages goes on with page i
GotoPage(page, i) ==
    /\ pc' = IF i > Len(KGIS_STATIC_PAGE_URLS) THEN "done" ELSE page
    /\ ti' = IF i > Len(KGIS_STATIC_PAGE_URLS) THEN 0 ELSE i
    /\ exitCode' = IF i > Len(KGIS_STATIC_PAGE_URLS) THEN 0 ELSE -1
    /\ tokens' = <<>>
    /\ ki' = 0

\* the tests of the scraped HTML and of the extracted paths; the log keeps the
\* skip of the page, or the number of paths extracted from it
AfterScrape(html, paths, page, download) ==
    /\ served + Len(paths) <= MaxLinks
    /\ served' = served + Len(paths)
    /\ IF html = <<>>
       THEN /\ log' = log \o <<Event(page, ti, 0), Event("page_skipped", ti, 0)>>
            /\ GotoPage(page, ti + 1)
       ELSE /\ log' = log \o <<Event(page, ti, 0), Event("page_extracted", ti, Len(paths))>>
            /\ IF paths = <<>>
               THEN GotoPage(page, ti + 1)
               ELSE /\ pc' = download
                    /\ tokens' = paths
                    /\ ki' = 1
                    /\ UNCHANGED <<ti, exitCode>>

\* scrape_static_page_html and extract_static_pdf_paths for the current page
KgisPage ==
    /\ pc = "kgis_page"
    /\ \E resp \in StaticPageResponses :
        LET html_content == scrape_static_page_html(resp)
        IN  /\ req' = Request("page_get", ti, 0, <<>>, NoResp, html_content # <<>>)
            /\ AfterScrape(html_content, extract_static_pdf_paths(html_content),
                           "kgis_page", "kgis_download")
    /\ UNCHANGED <<got, resolved, catalog, url, dlVars>>

\* scrape_page_html_with_chrome and extract_pdf_files for the current page
ChromePage ==
    /\ pc = "chrome_page"
    /\ \E browser \in Browsers({<<>>}, StaticPages) :
        LET r == scrape_page_html_with_chrome(browser)
        IN  /\ req' = Request("page_render", ti, 0, <<>>, NoResp, r.html # <<>>)
            /\ IF r.raised
               THEN /\ log' = Append(log, Event("chrome_page", ti, 0))
                    /\ pc' = "crashed"
                    /\ exitCode' = 1
                    /\ UNCHANGED <<served, ti, tokens, ki>>
               ELSE AfterScrape(r.html, extract_pdf_files(r.html), "chrome_page", "chrome_download")
    /\ UNCHANGED <<got, resolved, catalog, url, dlVars>>

\* the end of the loop body for the current path
AfterPath(page) ==
    IF ki < Len(tokens)
    THEN ki' = ki + 1 /\ UNCHANGED <<pc, ti, tokens, exitCode>>
    ELSE GotoPage(page, ti + 1)

\* a download call of the static run; got keeps the URL each saved file came from
StaticDownload(fn, full_pdf_url, p, out, resp) ==
    /\ fs' = out.fs
    /\ url' = full_pdf_url
    /\ log' = log \o DownloadEvents(out, ti, ki, p)
    /\ req' = DownloadRequest(out, ti, ki, p, req)
    /\ last' = Record(fn, p, fs, out)
    /\ downloaded' = RecordSuccess(downloaded, p, out, resp)
    /\ got' = IF out.result = "downloaded" THEN WriteFile(got, p, full_pdf_url) ELSE got
    /\ ncalls' = ncalls + 1
    /\ UNCHANGED <<served, resolved, catalog>>

\* the path derivation and download_file_to_disk for the current path
KgisDownload ==
    /\ pc = "kgis_download"
    /\ LET full_pdf_url == KGIS_DOWNLOAD_BASE_URL \o tokens[ki]
           p == PathJoin(static_output_directory, create_kgis_safe_filename(full_pdf_url))
       IN  \E resp \in RerunResponses :
            StaticDownload("download_file_to_disk", full_pdf_url, p,
                           download_file_to_disk(fs, resp, p), resp)
    /\ AfterPath("kgis_page")

\* download_pdf for the current path
ChromeDownload ==
    /\ pc = "chrome_download"
    /\ LET full_pdf_url == KGIS_DOWNLOAD_BASE_URL \o tokens[ki]
           p == full_file_path(full_pdf_url)
       IN  \E resp \in RerunResponses :
            StaticDownload("download_pdf", full_pdf_url, p, download_pdf(fs, resp, p), resp)
    /\ AfterPath("chrome_page")

NextStatic == KgisPage \/ KgisDownload \/ ChromePage \/ ChromeDownload

SpecStatic == InitStatic /\ [][NextStatic]_vars

\* C24: in one run no document is skipped because the file of another
\* document, saved from a different URL, already sits at its destination path.
C24_NoSkipForOtherDocument ==
    (last.result = "skipped" /\ last.path \in DOMAIN got) => got[last.path] = url

\* C26: a page that comes back empty (its fetch or rendering failed) or whose
\* HTML yields no path gets no download call, and the run does not stop
\* there: when the run ends, every page of the list has been fetched.
C26_FailedPageSkippedNotFatal ==
    /\ \A i, j \in DOMAIN log :
        (log[i].kind = "page_skipped" \/ (log[i].kind = "page_extracted" /\ log[i].k = 0))
            => ~(log[j].kind = "download_call" /\ log[j].t = log[i].t)
    /\ Ended =>
        \A page \in DOMAIN KGIS_STATIC_PAGE_URLS :
            \E i \in DOMAIN log : log[i].kind \in {"kgis_page", "chrome_page"} /\ log[i].t = page

----------------------------------------------------------------------------
(* Further properties of SpecRun.                                          *)

\* C25: in a run the catalog request is the first request and is issued once,
\* a run that has ended has issued it, and no target gets two token-list
\* requests, whatever the calls returned.
C25_CatalogOnceTokensOncePerTarget ==
    /\ \A i \in DOMAIN log : log[i].kind = "catalog_post" <=> i = 1
    /\ Ended => log # <<>>
    /\ \A i, j \in DOMAIN log :
        (i < j /\ log[i].kind = "token_post" /\ log[j].kind = "token_post") => log[i].t < log[j].t

\* a run has gone on after a failed token-list call and a later target has
\* had its own token-list request
C25_Witness ==
    \E i, j \in DOMAIN log :
        /\ i < j
        /\ log[i].kind = "token_post"
        /\ log[j].kind = "token_post"
        /\ log[i + 1].kind = "token_post"

----------------------------------------------------------------------------
(* Further properties of SpecStatic.                                       *)

\* C27: no step changes or removes a file that existed before it, and a
\* download call that found a file at its destination path did not open it.
C27_ExistingFilesUntouched ==
    [][/\ \A p \in DOMAIN fs : p \in DOMAIN fs' /\ fs'[p] = fs[p]
       /\ last'.existed => ~last'.opened]_vars

\* a download call has found the file of an earlier call at its path, with
\* the content that call wrote
C27_Witness ==
    /\ last.existed
    /\ ~last.opened
    /\ ncalls >= 2
    /\ last.path \in DOMAIN downloaded
    /\ fs[last.path].size = downloaded[last.path]

----------------------------------------------------------------------------
(* Further properties of SpecSan.                                          *)

\* C28: create_kgis_safe_filename and url_to_filename applied to their own
\* output return that output unchanged.
C28_StaticSanitizersIdempotent ==
    (last.fn \in {"create_kgis_safe_filename", "url_to_filename"} /\ ncalls >= 2)
        => last.path = url

----------------------------------------------------------------------------
(* SpecSkip: a run of main.py in dynamic mode over catalogs that hold      *)
(* records without a usable model year or model name.                      *)

\* MODEL_A, and records whose year is missing or 0, or whose name is missing or empty
SkipModels ==
    {MODEL_A, MODEL_NO_YEAR,
     JObj([modelYear |-> JNum(0), modelName |-> JStr(<<"K","5">>)]),
     JObj([modelYear |-> JNum(2024)]),
     JObj([modelYear |-> JNum(2024), modelName |-> JStr(<<>>)])}

SkipCatalogResponses ==
    {[conn |-> "error", status |-> 0, body |-> NotJson]}
    \cup {[conn |-> "ok", status |-> STATUS_OK,
           body |-> JObj([payload |-> JObj([vehicleModelHU |-> JList(l)])])] :
            l \in SeqsUpTo(SkipModels, MaxModels)}

\* fetch_all_model_years, the abort test and the entry into the loop
SkipFetchCatalog ==
    /\ pc = "start"
    /\ \E resp \in SkipCatalogResponses :
        LET r == fetch_all_model_years(resp)
        IN  /\ log' = Append(log, Event("catalog_post", 0, 0))
            /\ req' = Request("catalog_post", 0, 0, <<>>, resp, ~r.raised /\ Truthy(r.value))
            /\ IF r.raised THEN Stop("crashed") /\ catalog' = catalog
               ELSE IF ~Truthy(r.value) THEN Stop("aborted") /\ catalog' = catalog
               ELSE catalog' = Items(r.value) /\ GotoModel(Items(r.value), 1)
    /\ UNCHANGED <<served, got, resolved, dlVars>>

NextSkip == SkipFetchCatalog \/ FetchTokens \/ Refresh \/ Resolve \/ Download

SpecSkip == InitRun /\ [][NextSkip]_vars

\* the record is an object without a truthy modelYear or modelName
LacksYearOrName(record) ==
    /\ HasGet(record)
    /\ \/ ~Truthy(DictGet(record, "modelYear", JNull))
       \/ ~Truthy(DictGet(record, "modelName", JNull))

\* the loop has got beyond record i of the catalog
Passed(i) == i = 1 \/ ti > i \/ pc = "done"

\* C29: a catalog record without a truthy model year or model name never is
\* the current target and has no request or download call in the log, and
\* once the loop is beyond it the record after it, if usable, is the current
\* target or has had its token-list request.
C29_RecordWithoutYearOrNameSkipped ==
    \A i \in DOMAIN catalog :
        LacksYearOrName(catalog[i]) =>
            /\ ti # i
            /\ \A n \in DOMAIN log : log[n].kind # "catalog_post" => log[n].t # i
            /\ (/\ Passed(i)
                /\ i < Len(catalog)
                /\ HasGet(catalog[i + 1])
                /\ ~LacksYearOrName(catalog[i + 1]))
                    => \/ ti = i + 1
                       \/ \E n \in DOMAIN log : log[n] = Event("token_post", i + 1, 0)

\* a run has skipped a record with a year but no name and has saved a
\* document of the record after it
C29_Witness ==
    /\ Len(catalog) = 2
    /\ LacksYearOrName(catalog[1])
    /\ Truthy(DictGet(catalog[1], "modelYear", JNull))
    /\ last.result = "downloaded"
    /\ \E n \in DOMAIN log : log[n] = Event("document_get", 2, 1)

----------------------------------------------------------------------------
(* SpecChrome: one call of scrape_page_html_with_chrome (downloader.py).   *)

ChromePages == {PageHtml(links) : links \in SeqsUpTo(Links, MaxLinks)}

\* req keeps the browser, got the calls made on the driver, url the HTML returned
ScrapeOnce ==
    /\ last = NoCall
    /\ \E browser \in Browsers(ChromePages, ChromePages) :
        LET r == scrape_page_html_with_chrome(browser)
        IN  /\ req' = Request("page_render", 0, 0, <<>>, browser, ~r.raised)
            /\ got' = r.calls
            /\ url' = r.html
            /\ last' = [NoCall EXCEPT !.fn = "scrape_page_html_with_chrome",
                                      !.result = IF r.raised THEN "raised" ELSE "returned"]
    /\ log' = Append(log, Event("page_render", 0, 0))
    /\ ncalls' = ncalls + 1
    /\ pc = "idle"
    /\ UNCHANGED <<fs, served, resolved, downloaded, pc, catalog, ti, tokens, ki, exitCode>>

NextChrome == ScrapeOnce

SpecChrome == InitDl /\ [][NextChrome]_vars

\* C30: when the call is over, a browser that was created has been closed
\* (quit is the last call made on the driver), and when the creation failed
\* the function has returned empty content without a navigation.
C30_CreatedBrowserClosed ==
    last.fn = "scrape_page_html_with_chrome" =>
        IF req.resp.fails = "Chrome"
        THEN /\ last.result = "returned"
             /\ url = <<>>
             /\ \A i \in DOMAIN got : got[i] # "get"
        ELSE got[Len(got)] = "quit"

====
